---- MODULE Spec2Model ----
(***************************************************************************)
(* create-sid-react-app: the CLI entry point (bin/index.ts) and createApp  *)
(* (src/createApp.ts) as a state machine over a small file system.         *)
(*                                                                         *)
(* A path is a record [abs, segs]: abs tells whether the string starts     *)
(* with "/", segs are its segments exactly as written ("." and ".." are    *)
(* kept until an operation of node's path module normalises them).         *)
(***************************************************************************)
EXTENDS Naturals, Sequences, FiniteSets, TLC

VARIABLES
    argv,         \* the <project-name> argument as typed
    cwd0,         \* process.cwd() at invocation (history)
    tmpl,         \* the bundled template directory: [present, files]
    cwd,          \* process.cwd()
    files,        \* the file system: absolute segs -> file content
    dirs,         \* the file system: set of absolute segs that are directories
    pc,           \* position in bin/index.ts + createApp
    projectName,  \* createApp's first parameter
    targetDir,    \* createApp's second parameter
    pkgJson,      \* createApp's local pkgJson
    stdout,       \* console.log output, in order
    exitCode,     \* process exit code, meaningful once pc = "exited"
    steps,        \* the steps started so far, in order (history)
    failedAt,     \* the step whose promise rejected, "none" otherwise (history)
    copyDest,     \* absolute directory fs.copy wrote into (history)
    pkgWrites,    \* number of completed writes of package.json (history)
    installCwd    \* working directory of the spawned npm install (history)

vars == <<argv, cwd0, tmpl, cwd, files, dirs, pc, projectName, targetDir,
          pkgJson, stdout, exitCode, steps, failedAt, copyDest, pkgWrites,
          installCwd>>

----------------------------------------------------------------------------
(* Bounds of the model *)

MaxSegs == 2

Segments == {"app", "sub", ".", ".."}

Cwds == {<<>>, <<"work">>, <<"home", "sid">>}

----------------------------------------------------------------------------
(* node:path *)

Path(a, s) == [abs |-> a, segs |-> s]

NoPath == Path(FALSE, <<"<none>">>)

DropLast(s) == SubSeq(s, 1, Len(s) - 1)

RECURSIVE Walk(_, _)
Walk(stack, segs) ==
    IF segs = <<>> THEN stack
    ELSE LET s == Head(segs) IN
         Walk(IF s = "." THEN stack
              ELSE IF s = ".."
                   THEN (IF stack = <<>> THEN <<>> ELSE DropLast(stack))
                   ELSE Append(stack, s),
              Tail(segs))

RECURSIVE WalkRel(_, _)
WalkRel(stack, segs) ==
    IF segs = <<>> THEN stack
    ELSE LET s == Head(segs) IN
         WalkRel(IF s = "." THEN stack
                 ELSE IF s = ".." /\ stack # <<>> /\ stack[Len(stack)] # ".."
                      THEN DropLast(stack)
                      ELSE Append(stack, s),
                 Tail(segs))

\* path.resolve(from, p), from absolute
Resolve(from, p) ==
    Path(TRUE, Walk(IF p.abs THEN <<>> ELSE from.segs, p.segs))

\* path.join(p, name)
Join(p, name) ==
    IF p.abs THEN Path(TRUE, Walk(<<>>, Append(p.segs, name)))
    ELSE Path(FALSE, WalkRel(<<>>, Append(p.segs, name)))

\* path.basename(p): the last segment of the string as written
Basename(p) == IF p.segs = <<>> THEN "" ELSE p.segs[Len(p.segs)]

\* the path the fs module opens for p: relative paths start at process.cwd()
FsPath(c, p) == Resolve(c, p).segs

Prefixes(s) == {SubSeq(s, 1, n) : n \in 0..Len(s)}

IsUnder(p, d) == Len(p) >= Len(d) /\ SubSeq(p, 1, Len(d)) = d

----------------------------------------------------------------------------
(* JSON manifests and file contents *)

Spaces == 2

TextFile(id) == [kind |-> "text", id |-> id, indent |-> 0, val |-> <<>>]

JsonFile(m, ind) == [kind |-> "json", id |-> "package.json", indent |-> ind, val |-> m]

HasKey(m, k) == \E i \in DOMAIN m : m[i][1] = k

Keys(m) == {m[i][1] : i \in DOMAIN m}

Get(m, k) == m[CHOOSE i \in DOMAIN m : m[i][1] = k][2]

\* the object replaced by one that holds the name alone
SetNameOnly(m, v) == <<<<"name", v>>>>

\* pkgJson.name = v
SetName(m, v) ==
    IF HasKey(m, "name")
    THEN [i \in DOMAIN m |-> IF m[i][1] = "name" THEN <<"name", v>> ELSE m[i]]
    ELSE Append(m, <<"name", v>>)

Manifests ==
    { <<<<"name", "template">>, <<"version", "1.0.0">>, <<"scripts", "vite">>>>,
      <<<<"version", "1.0.0">>, <<"name", "app">>>>,
      <<<<"version", "0.0.1">>, <<"private", "true">>>> }

PkgContents ==
    {JsonFile(m, ind) : m \in Manifests, ind \in {Spaces, 4}}
        \cup {TextFile("not json")}

BaseFiles ==
    (<<"index.html">> :> TextFile("index.html"))
        @@ (<<"src", "main.tsx">> :> TextFile("main.tsx"))

Templates ==
    {[present |-> FALSE, files |-> <<>>]}
        \cup {[present |-> TRUE, files |-> BaseFiles]}
        \cup {[present |-> TRUE, files |-> BaseFiles @@ (<<"package.json">> :> c)] :
                c \in PkgContents}

RawNames ==
    UNION {{Path(a, s) : s \in [1..n -> Segments], a \in BOOLEAN} : n \in 1..MaxSegs}
        \cup {Path(TRUE, <<>>)}

----------------------------------------------------------------------------
(* console.log *)

Msg(text, arg) == [text |-> text, arg |-> arg]

CreatingMsg(name) == Msg("Creating project: ", name)

CopiedMsg == Msg("Template copied", NoPath)

InstallingMsg == Msg("Installing dependencies...", NoPath)

InstalledMsg == Msg("Dependencies installed", NoPath)

AllDoneMsg == Msg("All done! Run the following:", NoPath)

\* `cd ${projectName} && npm run dev`
CdMsg(name) == Msg("cd && npm run dev", name)

Texts(out) == {out[i].text : i \in DOMAIN out}

----------------------------------------------------------------------------
(* fs-extra *)

\* the directories that hold the files S of the template once copied to dest
DirsFor(dest, S) ==
    Prefixes(dest) \cup UNION {{dest \o d : d \in Prefixes(DropLast(f))} : f \in S}

\* the files S of the template, placed under dest
Placed(t, dest, S) ==
    LET back(p) == CHOOSE f \in S : dest \o f = p
    IN  [p \in {dest \o f : f \in S} |-> t[back(p)]]

\* a copy that does not descend into sub-directories
CopyTopLevel(t, dest) == Placed(t, dest, {f \in DOMAIN t : Len(f) = 1})

\* fs.copy(templateDir, dest): the whole tree, nested directories included
CopyTree(t, dest) == Placed(t, dest, DOMAIN t)

----------------------------------------------------------------------------
(* State after the process has started and commander has parsed argv *)

Init ==
    /\ argv \in RawNames
    /\ cwd0 \in {Path(TRUE, c) : c \in Cwds}
    /\ tmpl \in Templates
    /\ cwd = cwd0
    /\ files = <<>>
    /\ dirs = Prefixes(cwd0.segs)
    /\ pc = "cli"
    /\ projectName = NoPath
    /\ targetDir = NoPath
    /\ pkgJson = <<>>
    /\ stdout = <<>>
    /\ exitCode = 0
    /\ steps = <<>>
    /\ failedAt = "none"
    /\ copyDest = NoPath
    /\ pkgWrites = 0
    /\ installCwd = NoPath

----------------------------------------------------------------------------
(* bin/index.ts *)

\* the arguments of the call createApp(targetDir, projectName), in order
CallArgs(c, name) ==
    LET cliTargetDir == Resolve(c, name)
    IN  <<cliTargetDir, name>>

\* .action(async (projectName) => { ... createApp(...) }) up to the first await
CliAction ==
    /\ pc = "cli"
    /\ LET args == CallArgs(cwd, argv) IN
         /\ projectName' = args[1]
         /\ targetDir' = args[2]
         /\ stdout' = Append(stdout, CreatingMsg(args[1]))
    /\ pc' = "copy"
    /\ UNCHANGED <<argv, cwd0, tmpl, cwd, files, dirs, pkgJson, exitCode, steps,
                   failedAt, copyDest, pkgWrites, installCwd>>

----------------------------------------------------------------------------
(* src/createApp.ts *)

Reject(step) ==
    /\ pc' = "rejected"
    /\ failedAt' = step

\* the destination is created before the source is looked at
CopyNoTemplateMkdirs ==
    /\ pc = "copy"
    /\ ~tmpl.present
    /\ dirs' = dirs \cup Prefixes(FsPath(cwd, targetDir))
    /\ steps' = Append(steps, "copy")
    /\ Reject("copy")
    /\ UNCHANGED <<argv, cwd0, tmpl, cwd, files, projectName, targetDir,
                   pkgJson, stdout, exitCode, copyDest, pkgWrites, installCwd>>

\* fs.copy: the source is stat'ed before anything is created
CopyNoTemplate ==
    /\ pc = "copy"
    /\ ~tmpl.present
    /\ steps' = Append(steps, "copy")
    /\ Reject("copy")
    /\ UNCHANGED <<argv, cwd0, tmpl, cwd, files, dirs, projectName, targetDir,
                   pkgJson, stdout, exitCode, copyDest, pkgWrites, installCwd>>

\* fs.copy fails part way (permission denied, disk full): some files are there
CopyIOError ==
    /\ pc = "copy"
    /\ tmpl.present
    /\ LET dest == FsPath(cwd, targetDir) IN
       \E S \in SUBSET (DOMAIN tmpl.files), made \in BOOLEAN :
         /\ S # DOMAIN tmpl.files
         /\ S # {} => made
         /\ files' = Placed(tmpl.files, dest, S) @@ files
         /\ dirs' = IF made THEN dirs \cup DirsFor(dest, S) ELSE dirs
    /\ steps' = Append(steps, "copy")
    /\ Reject("copy")
    /\ UNCHANGED <<argv, cwd0, tmpl, cwd, projectName, targetDir, pkgJson,
                   stdout, exitCode, copyDest, pkgWrites, installCwd>>

\* the working directory switched right after the copy
CopyOkThenChdir ==
    /\ pc = "copy"
    /\ tmpl.present
    /\ LET dest == FsPath(cwd, targetDir) IN
         /\ files' = CopyTree(tmpl.files, dest) @@ files
         /\ dirs' = dirs \cup DirsFor(dest, DOMAIN tmpl.files)
         /\ copyDest' = Path(TRUE, dest)
         /\ cwd' = Path(TRUE, dest)
         /\ targetDir' = Path(TRUE, dest)
    /\ steps' = Append(steps, "copy")
    /\ stdout' = Append(stdout, CopiedMsg)
    /\ pc' = "readJson"
    /\ UNCHANGED <<argv, cwd0, tmpl, projectName, pkgJson,
                   exitCode, failedAt, pkgWrites, installCwd>>

CopyOk ==
    /\ pc = "copy"
    /\ tmpl.present
    /\ LET dest == FsPath(cwd, targetDir) IN
         /\ files' = CopyTree(tmpl.files, dest) @@ files
         /\ dirs' = dirs \cup DirsFor(dest, DOMAIN tmpl.files)
         /\ copyDest' = Path(TRUE, dest)
    /\ steps' = Append(steps, "copy")
    /\ stdout' = Append(stdout, CopiedMsg)
    /\ pc' = "readJson"
    /\ UNCHANGED <<argv, cwd0, tmpl, cwd, projectName, targetDir, pkgJson,
                   exitCode, failedAt, pkgWrites, installCwd>>

PkgJsonPath == FsPath(cwd, Join(targetDir, "package.json"))

Readable(p) == p \in DOMAIN files /\ files[p].kind = "json"

ReadJsonOk ==
    /\ pc = "readJson"
    /\ Readable(PkgJsonPath)
    /\ pkgJson' = files[PkgJsonPath].val
    /\ steps' = Append(steps, "readJson")
    /\ pc' = "writeJson"
    /\ UNCHANGED <<argv, cwd0, tmpl, cwd, files, dirs, projectName, targetDir,
                   stdout, exitCode, failedAt, copyDest, pkgWrites, installCwd>>

\* package.json missing, or not valid JSON
ReadJsonFail ==
    /\ pc = "readJson"
    /\ ~Readable(PkgJsonPath)
    /\ steps' = Append(steps, "readJson")
    /\ Reject("readJson")
    /\ UNCHANGED <<argv, cwd0, tmpl, cwd, files, dirs, projectName, targetDir,
                   pkgJson, stdout, exitCode, copyDest, pkgWrites, installCwd>>

\* const appName = path.basename(targetDir); pkgJson.name = appName
Patch(m, td) == SetName(m, Basename(td))

WriteJsonOk ==
    /\ pc = "writeJson"
    /\ pkgJson' = Patch(pkgJson, targetDir)
    /\ files' = [files EXCEPT ![PkgJsonPath] = JsonFile(pkgJson', Spaces)]
    /\ pkgWrites' = pkgWrites + 1
    /\ steps' = Append(steps, "writeJson")
    /\ pc' = "chdir"
    /\ UNCHANGED <<argv, cwd0, tmpl, cwd, dirs, projectName, targetDir, stdout,
                   exitCode, failedAt, copyDest, installCwd>>

\* a write failure that is swallowed: the run goes on
WriteJsonFailContinue ==
    /\ pc = "writeJson"
    /\ pkgJson' = Patch(pkgJson, targetDir)
    /\ steps' = Append(steps, "writeJson")
    /\ failedAt' = "writeJson"
    /\ pc' = "chdir"
    /\ UNCHANGED <<argv, cwd0, tmpl, cwd, files, dirs, projectName, targetDir,
                   stdout, exitCode, copyDest, pkgWrites, installCwd>>

\* the write fails; the file is as before, or already truncated
WriteJsonFail ==
    /\ pc = "writeJson"
    /\ pkgJson' = Patch(pkgJson, targetDir)
    /\ \E truncated \in BOOLEAN :
         files' = IF truncated
                  THEN [files EXCEPT ![PkgJsonPath] = TextFile("")]
                  ELSE files
    /\ steps' = Append(steps, "writeJson")
    /\ Reject("writeJson")
    /\ UNCHANGED <<argv, cwd0, tmpl, cwd, dirs, projectName, targetDir,
                   stdout, exitCode, copyDest, pkgWrites, installCwd>>

\* no change of directory
ChdirStay(c, td) == c

\* process.chdir(targetDir)
ChdirTo(c, td) == Resolve(c, td)

Chdir ==
    /\ pc = "chdir"
    /\ ChdirTo(cwd, targetDir).segs \in dirs
    /\ cwd' = ChdirTo(cwd, targetDir)
    /\ steps' = Append(steps, "chdir")
    /\ stdout' = Append(stdout, InstallingMsg)
    /\ pc' = "exec"
    /\ UNCHANGED <<argv, cwd0, tmpl, files, dirs, projectName, targetDir,
                   pkgJson, exitCode, failedAt, copyDest, pkgWrites, installCwd>>

\* execAsync("npm install"): the child inherits process.cwd()
ExecOk ==
    /\ pc = "exec"
    /\ installCwd' = cwd
    /\ steps' = Append(Append(steps, "exec"), "report")
    /\ stdout' = stdout \o <<InstalledMsg, AllDoneMsg, CdMsg(projectName)>>
    /\ pc' = "resolved"
    /\ UNCHANGED <<argv, cwd0, tmpl, cwd, files, dirs, projectName, targetDir,
                   pkgJson, exitCode, failedAt, copyDest, pkgWrites>>

\* a failed install that removes what was copied
ExecFailRollback ==
    /\ pc = "exec"
    /\ installCwd' = cwd
    /\ files' = [p \in {q \in DOMAIN files : ~IsUnder(q, copyDest.segs)}
                  |-> files[p]]
    /\ steps' = Append(steps, "exec")
    /\ Reject("exec")
    /\ UNCHANGED <<argv, cwd0, tmpl, cwd, dirs, projectName, targetDir,
                   pkgJson, stdout, exitCode, copyDest, pkgWrites>>

\* the child exits with a non-zero status
ExecFail ==
    /\ pc = "exec"
    /\ installCwd' = cwd
    /\ steps' = Append(steps, "exec")
    /\ Reject("exec")
    /\ UNCHANGED <<argv, cwd0, tmpl, cwd, files, dirs, projectName, targetDir,
                   pkgJson, stdout, exitCode, copyDest, pkgWrites>>

\* the shell cannot be spawned
ExecSpawnError ==
    /\ pc = "exec"
    /\ steps' = Append(steps, "exec")
    /\ Reject("exec")
    /\ UNCHANGED <<argv, cwd0, tmpl, cwd, files, dirs, projectName, targetDir,
                   pkgJson, stdout, exitCode, copyDest, pkgWrites, installCwd>>

----------------------------------------------------------------------------
(* process exit: program.parse() does not await the action's promise *)

RejectionExitCode == 1

Exit(code) ==
    /\ exitCode' = code
    /\ pc' = "exited"
    /\ UNCHANGED <<argv, cwd0, tmpl, cwd, files, dirs, projectName, targetDir,
                   pkgJson, stdout, steps, failedAt, copyDest, pkgWrites,
                   installCwd>>

ExitClean ==
    /\ pc = "resolved"
    /\ Exit(0)

UnhandledRejection ==
    /\ pc = "rejected"
    /\ Exit(RejectionExitCode)

----------------------------------------------------------------------------

Next ==
    \/ CliAction
    \/ CopyNoTemplate
    \/ CopyIOError
    \/ CopyOk
    \/ ReadJsonOk
    \/ ReadJsonFail
    \/ WriteJsonOk
    \/ WriteJsonFail
    \/ Chdir
    \/ ExecOk
    \/ ExecFail
    \/ ExecSpawnError
    \/ ExitClean
    \/ UnhandledRejection

Spec == Init /\ [][Next]_vars

TypeOK ==
    /\ pc \in {"cli", "copy", "readJson", "writeJson", "chdir", "exec",
               "resolved", "rejected", "exited"}
    /\ cwd.abs /\ cwd.segs \in dirs
    /\ pkgWrites \in 0..1

----------------------------------------------------------------------------
(* Properties *)

Succeeded == pc = "exited" /\ exitCode = 0

\* path.resolve(cwd, projectName) as the invocation saw it
ResolvedTarget == Resolve(cwd0, argv)

TargetPkg == Append(ResolvedTarget.segs, "package.json")

StepOrder == <<"copy", "readJson", "writeJson", "chdir", "exec", "report">>

IsPrefix(s, t) == Len(s) <= Len(t) /\ SubSeq(t, 1, Len(s)) = s

InitialDirs == Prefixes(cwd0.segs)

PlainName == Path(FALSE, <<"app">>)

Work == Path(TRUE, <<"work">>)

\* C1: after a successful run the name field of the package.json in the
\* resolved target directory is the base name of path.resolve(cwd, projectName),
\* whatever project name was typed ('.', '..' and 'x/..' included).
C1_NameIsResolvedBasename ==
    Succeeded =>
        /\ TargetPkg \in DOMAIN files
        /\ files[TargetPkg].kind = "json"
        /\ HasKey(files[TargetPkg].val, "name")
        /\ Get(files[TargetPkg].val, "name") = Basename(ResolvedTarget)

\* C2: on a successful run the line printed last is 'cd <projectName> && npm
\* run dev' with the project name as typed.
C2_CdNamesRawArgument ==
    Succeeded => stdout[Len(stdout)] = CdMsg(argv)

\* C3: once createApp runs, its targetDir parameter is the absolute path
\* path.resolve(cwd, projectName) computed by the entry point and its
\* projectName parameter is the argument as typed.
C3_ParametersKeepMeaning ==
    pc # "cli" => targetDir = ResolvedTarget /\ projectName = argv

\* C4: when npm install is spawned, the working directory of the process is
\* path.resolve(invocation cwd, projectName), the directory the template was
\* copied into.
C4_InstallRunsInTarget ==
    installCwd # NoPath =>
        /\ installCwd = ResolvedTarget
        /\ installCwd = copyDest

C4_Witness ==
    /\ argv = PlainName
    /\ cwd0 = Work
    /\ installCwd = Path(TRUE, <<"work", "app">>)

\* C5: for a project name without path separators, after a successful run the
\* directory of that name under the invocation directory exists and holds
\* every file of the template, at every depth.
C5_TemplateFullyCopied ==
    (Succeeded /\ ~argv.abs /\ Len(argv.segs) = 1) =>
        /\ ResolvedTarget.segs \in dirs
        /\ \A f \in DOMAIN tmpl.files :
             ResolvedTarget.segs \o f \in DOMAIN files

C5_Witness ==
    /\ Succeeded
    /\ argv = PlainName
    /\ cwd0 = Work
    /\ <<"work", "app", "src", "main.tsx">> \in DOMAIN files

\* C6: the manifest patch touches the name field only: the package.json in the
\* target has, besides name, exactly the keys of the template's package.json,
\* each with the template's value and in the template's order; it is written
\* at most once, exactly once in a successful run, with 2-space indentation.
OtherEntries(m) == SelectSeq(m, LAMBDA e : e[1] # "name")

C6_OnlyNameChanges ==
    /\ pkgWrites <= 1
    /\ Succeeded => pkgWrites = 1
    /\ pkgWrites = 1 =>
         LET written == files[Append(copyDest.segs, "package.json")]
             original == tmpl.files[<<"package.json">>]
         IN  /\ written.kind = "json"
             /\ written.indent = Spaces
             /\ OtherEntries(written.val) = OtherEntries(original.val)
             /\ Cardinality({i \in DOMAIN written.val : written.val[i][1] = "name"}) = 1

C6_Witness ==
    /\ pkgWrites = 1
    /\ tmpl.present
    /\ <<"package.json">> \in DOMAIN tmpl.files
    /\ tmpl.files[<<"package.json">>].indent = 4
    /\ Len(tmpl.files[<<"package.json">>].val) = 3
    /\ files[Append(copyDest.segs, "package.json")].val # tmpl.files[<<"package.json">>].val

\* C7: when the install fails (non-zero exit, or no spawn), the run ends in
\* failure, the process exit code is not 0, every copied template file and the
\* patched package.json are still in the target directory, and neither
\* 'Dependencies installed' nor the completion message is printed.
C7_InstallFailureKeepsFiles ==
    failedAt = "exec" =>
        /\ pc \in {"rejected", "exited"}
        /\ pc = "exited" => exitCode # 0
        /\ \A f \in DOMAIN tmpl.files :
             /\ copyDest.segs \o f \in DOMAIN files
             /\ f # <<"package.json">> =>
                  files[copyDest.segs \o f] = tmpl.files[f]
        /\ files[Append(copyDest.segs, "package.json")] = JsonFile(pkgJson, Spaces)
        /\ HasKey(pkgJson, "name")
        /\ Texts(stdout) \cap {InstalledMsg.text, AllDoneMsg.text, CdMsg(NoPath).text} = {}

C7_Witness ==
    /\ failedAt = "exec"
    /\ pc = "exited"
    /\ installCwd # NoPath
    /\ argv = PlainName

\* C8: with the template directory absent the run fails at the copy step,
\* nothing is created in the file system, and no later step (manifest patch,
\* working-directory switch, install) is performed.
C8_NoTemplateNoEffect ==
    ~tmpl.present =>
        /\ files = <<>>
        /\ dirs = InitialDirs
        /\ cwd = cwd0
        /\ pkgWrites = 0
        /\ installCwd = NoPath
        /\ IsPrefix(steps, <<"copy">>)
        /\ pc \notin {"cli", "copy"} => failedAt = "copy" /\ pc \in {"rejected", "exited"}
        /\ pc = "exited" => exitCode # 0

C8_Witness ==
    /\ ~tmpl.present
    /\ pc = "exited"
    /\ argv = PlainName

\* C9: the steps run in the order copy, read package.json, write package.json,
\* change directory, install, report; each at most once; a step starts only
\* when every earlier one has succeeded, so the failing step is the last one.
C9_StepsInOrder ==
    /\ IsPrefix(steps, StepOrder)
    /\ failedAt # "none" =>
         /\ steps # <<>>
         /\ failedAt = steps[Len(steps)]
         /\ pc \in {"rejected", "exited"}
    /\ Succeeded => steps = StepOrder

C9_Witness ==
    /\ pc = "exited"
    /\ failedAt = "writeJson"
    /\ steps = <<"copy", "readJson", "writeJson">>

\* C10: the working directory changes only after package.json has been
\* rewritten; a run that fails in the copy, the read or the write of
\* package.json still has the invocation directory as working directory and
\* has spawned no install.
Range(s) == {s[i] : i \in DOMAIN s}

C10_ChdirOnlyAfterPatch ==
    /\ failedAt \in {"copy", "readJson", "writeJson"} =>
         cwd = cwd0 /\ installCwd = NoPath
    /\ (cwd # cwd0 \/ "chdir" \in Range(steps)) => pkgWrites = 1

C10_Witness ==
    /\ failedAt = "readJson"
    /\ pc = "exited"
    /\ argv = PlainName
    /\ cwd0 = Work
    /\ <<"work", "app", "index.html">> \in DOMAIN files

====
